---- MODULE Spec2Model ----
(***************************************************************************)
(* Model of tester.py: the chest X-ray classifier that segments images,    *)
(* compares every unknown image with two reference pools by SSIM and       *)
(* writes a tabular report.                                                *)
(*                                                                         *)
(* Two specifications share the variables:                                 *)
(*   Spec             the script run as __main__ (model load, main()).     *)
(*   SpecClassificar  classificar_imagens called directly with arbitrary   *)
(*                    argument lists (the function's own contract).        *)
(*                                                                         *)
(* External libraries are oracles: the outcome of cv2.imread, of           *)
(* model.predict, of cv2.imwrite and the value of skimage's SSIM are       *)
(* drawn with \E in the action that makes the call.                        *)
(***************************************************************************)
EXTENDS Integers, Sequences, FiniteSets, TLC

\* ------------------------------------------------------------------ bounds
\* SpecCarregar: files of a long directory beyond one sub-batch of BATCH_SIZE.
MaxExtra == 1
\* Spec: files in the three directories of one run, all together.
MaxArquivos == 3
\* SpecClassificar: images handed to one call of classificar_imagens
\* (both pools and the unknown list together).
MaxImagens == 5

\* ------------------------------------------------------- program constants
SEG_SIZE == 256
BATCH_SIZE == 16

extensoes == {".jpg", ".jpeg", ".png", ".bmp", ".tiff", ".tif"}

\* ---------------------------------------------------------------- helpers
RECURSIVE Fatorial(_)
Fatorial(n) == IF n <= 1 THEN 1 ELSE n * Fatorial(n - 1)

Maior(a, b) == IF a >= b THEN a ELSE b
Menor(a, b) == IF a <= b THEN a ELSE b

RECURSIVE Soma(_)
Soma(s) == IF s = <<>> THEN 0 ELSE Head(s) + Soma(Tail(s))

\* All sequences over S of length 0..n.
SeqAte(S, n) == UNION {[1..k -> S] : k \in 0..n}

\* ------------------------------------------------------------ file system
\* A file of a directory: its name, its suffix, whether cv2.imread decodes
\* it, and the resolution of the decoded image.
\* Lower left out: the suffix is compared as it is written.
LowerIdentidade(e) == e

Lower(e) == IF e = ".JPG" THEN ".jpg" ELSE e

Arquivo(n, e, l, s) == [nome |-> n, ext |-> e, legivel |-> l, shape |-> s]

\* The directory whose i-th file is named <<"arq", i>> and has the suffix,
\* the decodability and the resolution t[i] = <<ext, legivel, shape>>.
PastaDe(t) ==
    [existe |-> TRUE,
     arquivos |-> [i \in 1..Len(t) |-> Arquivo(<<"arq", i>>, t[i][1], t[i][2], t[i][3])]]

PastaAusente == [existe |-> FALSE, arquivos |-> <<>>]

\* Every directory of at most n files whose kinds are drawn from tipos.
Pastas(n, tipos) == {PastaAusente} \cup {PastaDe(t) : t \in SeqAte(tipos, n)}

\* File kinds of the full run: a decodable image, an undecodable image file
\* and a file that is no image; decoded images are larger than SEG_SIZE.
TiposMain ==
    {<<".jpg", TRUE, 2 * SEG_SIZE>>, <<".jpg", FALSE, 2 * SEG_SIZE>>, <<".txt", TRUE, 2 * SEG_SIZE>>}

\* ------------------------------------------------------------ segmentation
\* An image in memory: the file it was decoded from, its resolution and
\* whether every pixel is zero.
Imagem(n, s, z) == [origem |-> n, shape |-> s, zero |-> z]

\* Outcomes of one call of segmentar_pulmao_batch drawn by the environment:
\* the call succeeds, model.predict raises, or the pre-processing
\* (cv2.resize / np.array, outside the try) raises.
ResultadosSeg == {"ok", "predict_falha", "resize_falha"}

\* segmentar_pulmao_batch: [excecao, imgs].
segmentar_pulmao_batch(imagens_gray, r) ==
    IF imagens_gray = <<>> THEN [excecao |-> FALSE, imgs |-> <<>>]
    ELSE IF r = "resize_falha" THEN [excecao |-> TRUE, imgs |-> <<>>]
    ELSE IF r = "predict_falha"
         THEN [excecao |-> FALSE,
               imgs |-> [i \in 1..Len(imagens_gray) |->
                           Imagem(imagens_gray[i].origem, imagens_gray[i].shape, TRUE)]]
    ELSE [excecao |-> FALSE,
          imgs |-> [i \in 1..Len(imagens_gray) |->
                      Imagem(imagens_gray[i].origem, SEG_SIZE, FALSE)]]

NumLotes(n) == (n + BATCH_SIZE - 1) \div BATCH_SIZE

\* segmentar_pulmao: the batch function on a list of one image, and the first
\* element of what it returns.
segmentar_pulmao(imagem_gray, r) == segmentar_pulmao_batch(<<imagem_gray>>, r)

\* SegmentarLotes with one call of segmentar_pulmao_batch on the whole list.
SegmentarSemLotes(imagens_gray, rs) ==
    LET seg == segmentar_pulmao_batch(imagens_gray, Head(rs))
    IN  [excecao |-> seg.excecao, imgs |-> seg.imgs]

\* The loop of carregar_imagens over sub-batches of BATCH_SIZE images; rs[k]
\* is the outcome of the k-th call.
RECURSIVE SegmentarLotes(_, _)
SegmentarLotes(imagens_gray, rs) ==
    IF imagens_gray = <<>> THEN [excecao |-> FALSE, imgs |-> <<>>]
    ELSE LET n     == Menor(BATCH_SIZE, Len(imagens_gray))
             batch == SubSeq(imagens_gray, 1, n)
             seg   == segmentar_pulmao_batch(batch, Head(rs))
             resto == SegmentarLotes(SubSeq(imagens_gray, n + 1, Len(imagens_gray)), Tail(rs))
         IN  IF seg.excecao \/ resto.excecao
             THEN [excecao |-> TRUE, imgs |-> <<>>]
             ELSE [excecao |-> FALSE, imgs |-> seg.imgs \o resto.imgs]

\* ----------------------------------------------------------------- loader
\* The files carregar_imagens decodes: suffix in the allow-list and imread
\* returns an image (a None or a raised error is logged and skipped).
Decodificados(pasta) ==
    SelectSeq(pasta.arquivos, LAMBDA f : Lower(f.ext) \in extensoes /\ f.legivel)

\* carregar_imagens: [excecao, motivo, imgs, nomes]. rs are the outcomes of
\* the segmentation calls, escrita whether seg_dir.mkdir and cv2.imwrite
\* work; neither the segmentation loop nor the writing is inside a try.
carregar_imagens(pasta, rs, escrita) ==
    LET vazio == [excecao |-> FALSE, motivo |-> "", imgs |-> <<>>, nomes |-> <<>>]
        dec   == Decodificados(pasta)
        gray  == [i \in 1..Len(dec) |-> Imagem(dec[i].nome, dec[i].shape, FALSE)]
        seg   == SegmentarLotes(gray, rs)
    IN  IF ~pasta.existe THEN vazio
        ELSE IF dec = <<>> THEN vazio
        ELSE IF seg.excecao
             THEN [excecao |-> TRUE, motivo |-> "preprocessamento", imgs |-> <<>>, nomes |-> <<>>]
        ELSE IF ~escrita
             THEN [excecao |-> TRUE, motivo |-> "escrita", imgs |-> <<>>, nomes |-> <<>>]
        ELSE [excecao |-> FALSE, motivo |-> "", imgs |-> seg.imgs,
              nomes |-> [i \in 1..Len(dec) |-> dec[i].nome]]

\* What the environment may answer to one call of carregar_imagens on pasta.
Ambientes(pasta) ==
    [1..NumLotes(Len(Decodificados(pasta))) -> ResultadosSeg] \X BOOLEAN

\* ------------------------------------------------------------- similarity
\* Similarity scores are fixed-point numbers: Unidade stands for 1.0, and it
\* is divisible by every possible pool size, so a mean of scores is exact.
Unidade == Fatorial(Maior(MaxArquivos, MaxImagens))

Num(v) == [t |-> "num", v |-> v]
NaN == [t |-> "nan", v |-> 0]
None == [t |-> "None", v |-> 0]

\* What skimage's structural_similarity may do on one pair: return the
\* lowest or the highest score of [-1, 1], return a non-finite value, or
\* raise.
ResultadosSSIM == {Num(-Unidade), Num(Unidade), [t |-> "nao_finito", v |-> 0], [t |-> "excecao", v |-> 0]}

\* calcular_ssim_robusto: the score, or None when it is not finite or the
\* computation raised.
calcular_ssim_robusto(r) == IF r.t = "num" THEN r ELSE None

\* Definidos without the test "if val is not None": a None is kept, as 0.
DefinidosComNone(rs) ==
    [i \in 1..Len(rs) |-> IF calcular_ssim_robusto(rs[i]) = None THEN 0
                           ELSE calcular_ssim_robusto(rs[i]).v]

\* The list ssim_saudaveis / ssim_doentes: the scores that are not None,
\* in pool order.
RECURSIVE Definidos(_)
Definidos(rs) ==
    IF rs = <<>> THEN <<>>
    ELSE LET val == calcular_ssim_robusto(Head(rs))
         IN  IF val # None THEN <<val.v>> \o Definidos(Tail(rs)) ELSE Definidos(Tail(rs))

\* Media with the empty list averaged to 0.0 instead of NaN.
MediaZeroSeVazia(l) == IF l # <<>> THEN Num(Soma(l) \div Len(l)) ELSE Num(0)

\* np.nanmean(l) if l else float('nan')
Media(l) == IF l # <<>> THEN Num(Soma(l) \div Len(l)) ELSE NaN

\* ------------------------------------------------------------- classifier
\* Decidir with the comparison written >=, so that a tie goes to Saudavel.
DecidirEmpateSaudavel(mean_saudavel, mean_doente) ==
    IF mean_saudavel = NaN /\ mean_doente = NaN
    THEN [classe |-> "Indefinido", confianca |-> 0]
    ELSE IF mean_doente = NaN
    THEN [classe |-> "Saudavel", confianca |-> mean_saudavel.v]
    ELSE IF mean_saudavel = NaN
    THEN [classe |-> "Doente", confianca |-> mean_doente.v]
    ELSE IF mean_saudavel.v >= mean_doente.v
    THEN [classe |-> "Saudavel", confianca |-> mean_saudavel.v - mean_doente.v]
    ELSE [classe |-> "Doente", confianca |-> mean_doente.v - mean_saudavel.v]

\* Decidir with the two isnan tests of the elif branches exchanged.
DecidirTrocado(mean_saudavel, mean_doente) ==
    IF mean_saudavel = NaN /\ mean_doente = NaN
    THEN [classe |-> "Indefinido", confianca |-> 0]
    ELSE IF mean_saudavel = NaN
    THEN [classe |-> "Saudavel", confianca |-> mean_doente.v]
    ELSE IF mean_doente = NaN
    THEN [classe |-> "Doente", confianca |-> mean_saudavel.v]
    ELSE IF mean_saudavel.v > mean_doente.v
    THEN [classe |-> "Saudavel", confianca |-> mean_saudavel.v - mean_doente.v]
    ELSE [classe |-> "Doente", confianca |-> mean_doente.v - mean_saudavel.v]

\* Decidir with the confidence of the last branch written as a sum.
DecidirConfiancaSoma(mean_saudavel, mean_doente) ==
    IF mean_saudavel = NaN /\ mean_doente = NaN
    THEN [classe |-> "Indefinido", confianca |-> 0]
    ELSE IF mean_doente = NaN
    THEN [classe |-> "Saudavel", confianca |-> mean_saudavel.v]
    ELSE IF mean_saudavel = NaN
    THEN [classe |-> "Doente", confianca |-> mean_doente.v]
    ELSE IF mean_saudavel.v > mean_doente.v
    THEN [classe |-> "Saudavel", confianca |-> mean_saudavel.v - mean_doente.v]
    ELSE [classe |-> "Doente", confianca |-> mean_doente.v + mean_saudavel.v]

\* The decision rule: [classe, confianca].
Decidir(mean_saudavel, mean_doente) ==
    IF mean_saudavel = NaN /\ mean_doente = NaN
    THEN [classe |-> "Indefinido", confianca |-> 0]
    ELSE IF mean_doente = NaN
    THEN [classe |-> "Saudavel", confianca |-> mean_saudavel.v]
    ELSE IF mean_saudavel = NaN
    THEN [classe |-> "Doente", confianca |-> mean_doente.v]
    ELSE IF mean_saudavel.v > mean_doente.v
    THEN [classe |-> "Saudavel", confianca |-> mean_saudavel.v - mean_doente.v]
    ELSE [classe |-> "Doente", confianca |-> mean_doente.v - mean_saudavel.v]

\* The row appended at the end of the try block.
Linha(nome, ssim_saudaveis, ssim_doentes) ==
    LET mean_saudavel == Media(ssim_saudaveis)
        mean_doente   == Media(ssim_doentes)
        d             == Decidir(mean_saudavel, mean_doente)
    IN  [imagem |-> nome,
         ssim_medio_saudaveis |-> mean_saudavel,
         ssim_medio_doentes |-> mean_doente,
         classificacao |-> d.classe,
         confianca |-> d.confianca,
         n_comparacoes_saudavel |-> Len(ssim_saudaveis),
         n_comparacoes_doente |-> Len(ssim_doentes)]

\* The row appended by the except handler.
LinhaErro(nome) ==
    [imagem |-> nome,
     ssim_medio_saudaveis |-> None,
     ssim_medio_doentes |-> None,
     classificacao |-> "Erro",
     confianca |-> 0,
     n_comparacoes_saudavel |-> 0,
     n_comparacoes_doente |-> 0]

\* nomes_desconhecidos[idx] if idx < len(nomes_desconhecidos) else f"img_{idx}"
\* (i is the 1-based position, idx = i - 1).
Nome(nomes, i) == IF i <= Len(nomes) THEN nomes[i] ELSE <<"img", i - 1>>

\* Where an exception may be raised inside the try block of one iteration:
\* nowhere, while the scores are computed (before the row is appended), or
\* in the logging statement that follows the append.
Pontos == {"nenhum", "comparacao", "log"}

\* Iteracao with an except handler that only logs.
IteracaoSemLinhaErro(nome, ssim_saudaveis, ssim_doentes, ponto) ==
    IF ponto = "comparacao" THEN <<>>
    ELSE <<Linha(nome, ssim_saudaveis, ssim_doentes)>>

\* The rows one iteration of the loop appends to resultados.
Iteracao(nome, ssim_saudaveis, ssim_doentes, ponto) ==
    IF ponto = "comparacao" THEN <<LinhaErro(nome)>>
    ELSE IF ponto = "log" THEN <<Linha(nome, ssim_saudaveis, ssim_doentes), LinhaErro(nome)>>
    ELSE <<Linha(nome, ssim_saudaveis, ssim_doentes)>>

\* ------------------------------------------------------------------ state
VARIABLES
    pc,                   \* position of the run
    modelo,               \* model.h5 on disk: "ok", "ausente", "corrompido"
    imgs_saudaveis,       \* healthy reference pool
    imgs_doentes,         \* diseased reference pool
    imgs_desconhecidos,   \* unknown images
    nomes_desconhecidos,  \* their file names
    pasta_desconhecidos,  \* content of the unknown directory when it was read
    idx,                  \* unknown images the loop has processed
    resultados,           \* rows accumulated by classificar_imagens
    ult,                  \* scores and failure points of the iterations so far
    relatorio,            \* relatorio_classificacao.csv: [escrito, linhas]
    codigo,               \* exit status of the process, -1 while it runs
    erro,                 \* what ended the process abnormally, "" otherwise
    ambiente,             \* answers of the environment to a direct call of
                          \* carregar_imagens: [seg, escrita]
    segmentadas           \* results of segmenting one image alone and within
                          \* a batch: [sozinha, lote]

vars == <<pc, modelo, imgs_saudaveis, imgs_doentes, imgs_desconhecidos,
          nomes_desconhecidos, pasta_desconhecidos, idx, resultados, ult,
          relatorio, codigo, erro, ambiente, segmentadas>>

SemRelatorio == [escrito |-> FALSE, linhas |-> <<>>]
NaoLida == [lida |-> FALSE, pasta |-> PastaAusente]
UltInicial == [saudaveis |-> <<>>, doentes |-> <<>>, pontos |-> <<>>]
SemAmbiente == [seg |-> <<>>, escrita |-> TRUE]
SemSegmentadas == [sozinha |-> <<>>, lote |-> <<>>]

Memoria == <<imgs_saudaveis, imgs_doentes, imgs_desconhecidos,
             nomes_desconhecidos, idx, resultados, ult>>

\* sys.exit(1) from the module body or from the __main__ guard: the process
\* ends with status 1 and its memory is gone; files already written stay.
SysExit1(motivo) ==
    /\ pc' = "fim"
    /\ codigo' = 1
    /\ erro' = motivo
    /\ imgs_saudaveis' = <<>>
    /\ imgs_doentes' = <<>>
    /\ imgs_desconhecidos' = <<>>
    /\ nomes_desconhecidos' = <<>>
    /\ idx' = 0
    /\ resultados' = <<>>
    /\ ult' = UltInicial
    /\ UNCHANGED <<modelo, pasta_desconhecidos, relatorio>>

\* main() returns early: the script ends normally, with status 0.
Retorna ==
    /\ pc' = "fim"
    /\ codigo' = 0
    /\ UNCHANGED erro

Init ==
    /\ pc = "import"
    /\ modelo \in {"ok", "ausente", "corrompido"}
    /\ imgs_saudaveis = <<>>
    /\ imgs_doentes = <<>>
    /\ imgs_desconhecidos = <<>>
    /\ nomes_desconhecidos = <<>>
    /\ pasta_desconhecidos = NaoLida
    /\ idx = 0
    /\ resultados = <<>>
    /\ ult = UltInicial
    /\ relatorio = SemRelatorio
    /\ codigo = -1
    /\ erro = ""
    /\ ambiente = SemAmbiente
    /\ segmentadas = SemSegmentadas

\* ------------------------------------------------------------ module body
\* Validar e carregar modelo: a missing or unloadable model ends the process.
CarregaModelo ==
    /\ pc = "import"
    /\ UNCHANGED <<ambiente, segmentadas>>
    /\ IF modelo = "ok"
       THEN /\ pc' = "saudaveis"
            /\ UNCHANGED <<modelo, pasta_desconhecidos, relatorio, codigo, erro>>
            /\ UNCHANGED Memoria
       ELSE SysExit1("modelo_" \o modelo)

\* ------------------------------------------------------------------ main()
\* The check of the reference pools left out.
NenhumaReferenciaNunca(saudaveis, doentes) == FALSE

\* if not imgs_saudaveis and not imgs_doentes: ... return
NenhumaReferenciaCarregada(saudaveis, doentes) == saudaveis = <<>> /\ doentes = <<>>

\* if not imgs_desconhecidos: ... return
NenhumaDesconhecida(desconhecidos) == desconhecidos = <<>>

\* imgs_saudaveis, _ = carregar_imagens(pasta_saudaveis)
CarregaSaudaveis ==
    /\ pc = "saudaveis"
    /\ UNCHANGED <<ambiente, segmentadas>>
    /\ \E pasta \in Pastas(MaxArquivos, TiposMain) :
       \E amb \in Ambientes(pasta) :
          LET r == carregar_imagens(pasta, amb[1], amb[2])
          IN  IF r.excecao
              THEN SysExit1(r.motivo)
              ELSE /\ imgs_saudaveis' = r.imgs
                   /\ pc' = "doentes"
                   /\ UNCHANGED <<modelo, imgs_doentes, imgs_desconhecidos,
                                  nomes_desconhecidos, pasta_desconhecidos, idx,
                                  resultados, ult, relatorio, codigo, erro>>

\* imgs_doentes, _ = carregar_imagens(pasta_doentes), then the check that
\* at least one pool has an image.
CarregaDoentes ==
    /\ pc = "doentes"
    /\ UNCHANGED <<ambiente, segmentadas>>
    /\ \E pasta \in Pastas(MaxArquivos - Len(imgs_saudaveis), TiposMain) :
       \E amb \in Ambientes(pasta) :
          LET r == carregar_imagens(pasta, amb[1], amb[2])
          IN  IF r.excecao
              THEN SysExit1(r.motivo)
              ELSE /\ imgs_doentes' = r.imgs
                   /\ IF NenhumaReferenciaCarregada(imgs_saudaveis, r.imgs)
                      THEN Retorna
                      ELSE pc' = "desconhecidos" /\ UNCHANGED <<codigo, erro>>
                   /\ UNCHANGED <<modelo, imgs_saudaveis, imgs_desconhecidos,
                                  nomes_desconhecidos, pasta_desconhecidos, idx,
                                  resultados, ult, relatorio>>

\* imgs_desconhecidos, nomes_desconhecidos = carregar_imagens(...), then the
\* check that there is an image to classify.
CarregaDesconhecidos ==
    /\ pc = "desconhecidos"
    /\ UNCHANGED <<ambiente, segmentadas>>
    /\ \E pasta \in Pastas(MaxArquivos - Len(imgs_saudaveis) - Len(imgs_doentes), TiposMain) :
       \E amb \in Ambientes(pasta) :
          LET r == carregar_imagens(pasta, amb[1], amb[2])
          IN  IF r.excecao
              THEN SysExit1(r.motivo)
              ELSE /\ imgs_desconhecidos' = r.imgs
                   /\ nomes_desconhecidos' = r.nomes
                   /\ pasta_desconhecidos' = [lida |-> TRUE, pasta |-> pasta]
                   /\ IF NenhumaDesconhecida(r.imgs)
                      THEN Retorna
                      ELSE pc' = "classificar" /\ UNCHANGED <<codigo, erro>>
                   /\ UNCHANGED <<modelo, imgs_saudaveis, imgs_doentes, idx,
                                  resultados, ult, relatorio>>

\* ---------------------------------------------------- classificar_imagens
\* The early return left out.
SemReferenciasNunca(saudaveis, doentes) == FALSE

\* if not imgs_saudaveis and not imgs_doentes: ... return resultados
SemReferencias(saudaveis, doentes) == saudaveis = <<>> /\ doentes = <<>>

\* resultados = [], and the early return when there is no reference image.
IniciaClassificacao ==
    /\ pc = "classificar"
    /\ UNCHANGED <<ambiente, segmentadas>>
    /\ resultados' = <<>>
    /\ idx' = 0
    /\ pc' = IF SemReferencias(imgs_saudaveis, imgs_doentes) \/ imgs_desconhecidos = <<>>
             THEN "salvar" ELSE "loop"
    /\ UNCHANGED <<modelo, imgs_saudaveis, imgs_doentes, imgs_desconhecidos,
                   nomes_desconhecidos, pasta_desconhecidos, ult, relatorio,
                   codigo, erro>>

\* ClassificaImagem that drops the first healthy reference at each iteration.
ClassificaImagemConsome ==
    /\ pc = "loop"
    /\ UNCHANGED <<ambiente, segmentadas>>
    /\ idx < Len(imgs_desconhecidos)
    /\ \E rs \in [1..Len(imgs_saudaveis) -> ResultadosSSIM] :
       \E rd \in [1..Len(imgs_doentes) -> ResultadosSSIM] :
       \E ponto \in Pontos :
          LET nome == Nome(nomes_desconhecidos, idx + 1)
          IN  /\ resultados' = resultados \o Iteracao(nome, Definidos(rs), Definidos(rd), ponto)
              /\ ult' = [saudaveis |-> IF ponto = "comparacao" THEN <<>>
                                       ELSE [i \in 1..Len(rs) |-> calcular_ssim_robusto(rs[i])],
                         doentes   |-> IF ponto = "comparacao" THEN <<>>
                                       ELSE [i \in 1..Len(rd) |-> calcular_ssim_robusto(rd[i])],
                         pontos    |-> Append(ult.pontos, ponto)]
    /\ idx' = idx + 1
    /\ pc' = IF idx + 1 = Len(imgs_desconhecidos) THEN "salvar" ELSE "loop"
    /\ imgs_saudaveis' = IF imgs_saudaveis = <<>> THEN <<>> ELSE Tail(imgs_saudaveis)
    /\ UNCHANGED <<modelo, imgs_doentes, imgs_desconhecidos,
                   nomes_desconhecidos, pasta_desconhecidos, relatorio, codigo, erro>>

\* One iteration of the for loop: the unknown image at position idx is
\* compared with every image of both pools, and its row is appended. The
\* function returns after the last iteration.
ClassificaImagem ==
    /\ pc = "loop"
    /\ UNCHANGED <<ambiente, segmentadas>>
    /\ idx < Len(imgs_desconhecidos)
    /\ \E rs \in [1..Len(imgs_saudaveis) -> ResultadosSSIM] :
       \E rd \in [1..Len(imgs_doentes) -> ResultadosSSIM] :
       \E ponto \in Pontos :
          LET nome == Nome(nomes_desconhecidos, idx + 1)
          IN  /\ resultados' = resultados \o Iteracao(nome, Definidos(rs), Definidos(rd), ponto)
              /\ ult' = [saudaveis |-> IF ponto = "comparacao" THEN <<>>
                                       ELSE [i \in 1..Len(rs) |-> calcular_ssim_robusto(rs[i])],
                         doentes   |-> IF ponto = "comparacao" THEN <<>>
                                       ELSE [i \in 1..Len(rd) |-> calcular_ssim_robusto(rd[i])],
                         pontos    |-> Append(ult.pontos, ponto)]
    /\ idx' = idx + 1
    /\ pc' = IF idx + 1 = Len(imgs_desconhecidos) THEN "salvar" ELSE "loop"
    /\ UNCHANGED <<modelo, imgs_saudaveis, imgs_doentes, imgs_desconhecidos,
                   nomes_desconhecidos, pasta_desconhecidos, relatorio, codigo, erro>>

\* ------------------------------------------------------- main(), continued
\* The report is written once, from the whole list, after classificar_imagens
\* has returned; then the statistics are logged and main() returns. A failed
\* write raises out of main().
SalvaRelatorio ==
    /\ pc = "salvar"
    /\ UNCHANGED <<ambiente, segmentadas>>
    /\ \E escrita \in BOOLEAN :
          IF escrita
          THEN /\ relatorio' = [escrito |-> TRUE, linhas |-> resultados]
               /\ pc' = "fim"
               /\ codigo' = 0
               /\ UNCHANGED <<modelo, pasta_desconhecidos, erro>>
               /\ UNCHANGED Memoria
          ELSE SysExit1("to_csv")

\* KeyboardInterrupt while main() runs: caught by the __main__ guard, which
\* logs and calls sys.exit(1).
Interrompe ==
    /\ pc \in {"saudaveis", "doentes", "desconhecidos", "classificar", "loop", "salvar"}
    /\ UNCHANGED <<ambiente, segmentadas>>
    /\ SysExit1("KeyboardInterrupt")

Next ==
    \/ CarregaModelo
    \/ CarregaSaudaveis
    \/ CarregaDoentes
    \/ CarregaDesconhecidos
    \/ IniciaClassificacao
    \/ ClassificaImagem
    \/ SalvaRelatorio
    \/ Interrompe

Spec == Init /\ [][Next]_vars

\* ------------------------------------- classificar_imagens called directly
\* Argument lists of one call: n images, each already segmented.
Lista(prefixo, n) == [i \in 1..n |-> Imagem(<<prefixo, i>>, SEG_SIZE, FALSE)]

InitClassificar ==
    /\ pc = "classificar"
    /\ modelo = "ok"
    /\ \E ns \in 0..MaxImagens : \E nd \in 0..(MaxImagens - ns) :
       \E nu \in 0..(MaxImagens - ns - nd) :
          /\ imgs_saudaveis = Lista("saudavel", ns)
          /\ imgs_doentes = Lista("doente", nd)
          /\ imgs_desconhecidos = Lista("arq", nu)
          /\ nomes_desconhecidos = [i \in 1..nu |-> <<"arq", i>>]
    /\ pasta_desconhecidos = NaoLida
    /\ idx = 0
    /\ resultados = <<>>
    /\ ult = UltInicial
    /\ relatorio = SemRelatorio
    /\ codigo = -1
    /\ erro = ""
    /\ ambiente = SemAmbiente
    /\ segmentadas = SemSegmentadas

NextClassificar ==
    \/ IniciaClassificacao
    \/ ClassificaImagem

SpecClassificar == InitClassificar /\ [][NextClassificar]_vars

\* --------------------------------------- carregar_imagens called directly
\* File kinds of a short directory: suffix, decodability, resolution.
TiposCarregar == {".jpg", ".JPG", ".txt"} \X BOOLEAN \X {SEG_SIZE, 2 * SEG_SIZE}

\* A long directory of n files: file i has the i-th suffix of the allow-list
\* (in turn) and alternating resolutions; file ruim does not decode and
\* file outro is no image (0: there is no such file).
ExtsImagem == <<".jpg", ".jpeg", ".png", ".bmp", ".tiff", ".tif", ".JPG">>

PastaLonga(n, ruim, outro) ==
    [existe |-> TRUE,
     arquivos |-> [i \in 1..n |->
        Arquivo(<<"arq", i>>,
                IF i = outro THEN ".txt" ELSE ExtsImagem[((i - 1) % Len(ExtsImagem)) + 1],
                i # ruim,
                IF i % 2 = 0 THEN SEG_SIZE ELSE 2 * SEG_SIZE)]]

PastasCarregar ==
    Pastas(MaxArquivos, TiposCarregar)
        \cup {PastaLonga(n, ruim, outro) :
                n \in 0..(BATCH_SIZE + MaxExtra), ruim \in 0..2, outro \in 0..(BATCH_SIZE + MaxExtra)}

InitCarregar ==
    /\ pc = "carregar"
    /\ modelo = "ok"
    /\ imgs_saudaveis = <<>>
    /\ imgs_doentes = <<>>
    /\ imgs_desconhecidos = <<>>
    /\ nomes_desconhecidos = <<>>
    /\ \E pasta \in PastasCarregar : pasta_desconhecidos = [lida |-> FALSE, pasta |-> pasta]
    /\ idx = 0
    /\ resultados = <<>>
    /\ ult = UltInicial
    /\ relatorio = SemRelatorio
    /\ codigo = -1
    /\ erro = ""
    /\ ambiente = SemAmbiente
    /\ segmentadas = SemSegmentadas

\* One call carregar_imagens(pasta): it returns the two lists, or an
\* exception leaves it.
ChamaCarregar ==
    /\ pc = "carregar"
    /\ \E amb \in Ambientes(pasta_desconhecidos.pasta) :
          LET r == carregar_imagens(pasta_desconhecidos.pasta, amb[1], amb[2])
          IN  /\ ambiente' = [seg |-> amb[1], escrita |-> amb[2]]
              /\ pc' = IF r.excecao THEN "excecao" ELSE "retornou"
              /\ erro' = r.motivo
              /\ imgs_desconhecidos' = r.imgs
              /\ nomes_desconhecidos' = r.nomes
    /\ pasta_desconhecidos' = [lida |-> TRUE, pasta |-> pasta_desconhecidos.pasta]
    /\ UNCHANGED <<modelo, imgs_saudaveis, imgs_doentes, idx, resultados, ult,
                   relatorio, codigo, segmentadas>>

NextCarregar == ChamaCarregar

SpecCarregar == InitCarregar /\ [][NextCarregar]_vars

\* ------------------------- one image segmented alone and within a batch
\* Decoded images of a batch: resolutions in every combination for a short
\* batch, in turn for a batch of up to BATCH_SIZE images.
Resolucoes == {SEG_SIZE, 2 * SEG_SIZE}

LotesCurtos ==
    {[i \in 1..Len(t) |-> Imagem(<<"arq", i>>, t[i], FALSE)] :
        t \in SeqAte(Resolucoes, MaxArquivos) \ {<<>>}}

LotesLongos ==
    {[i \in 1..n |-> Imagem(<<"arq", i>>, IF i % 2 = 0 THEN SEG_SIZE ELSE 2 * SEG_SIZE, FALSE)] :
        n \in 1..BATCH_SIZE}

\* imgs_desconhecidos is the batch and idx the position of the image in it.
InitLote ==
    /\ pc = "lote"
    /\ modelo = "ok"
    /\ imgs_saudaveis = <<>>
    /\ imgs_doentes = <<>>
    /\ imgs_desconhecidos \in LotesCurtos \cup LotesLongos
    /\ nomes_desconhecidos = <<>>
    /\ pasta_desconhecidos = NaoLida
    /\ idx \in 1..Len(imgs_desconhecidos)
    /\ resultados = <<>>
    /\ ult = UltInicial
    /\ relatorio = SemRelatorio
    /\ codigo = -1
    /\ erro = ""
    /\ ambiente = SemAmbiente
    /\ segmentadas = SemSegmentadas

\* segmentar_pulmao(X) and segmentar_pulmao_batch(batch) with X in the batch:
\* two calls, each with its own outcome of the model call.
SegmentaSozinhaENoLote ==
    /\ pc = "lote"
    /\ \E r1 \in ResultadosSeg, r2 \in ResultadosSeg :
          LET sozinha == segmentar_pulmao(imgs_desconhecidos[idx], r1)
              lote    == segmentar_pulmao_batch(imgs_desconhecidos, r2)
          IN  /\ ambiente' = [seg |-> <<r1, r2>>, escrita |-> TRUE]
              /\ segmentadas' = [sozinha |-> sozinha.imgs, lote |-> lote.imgs]
              /\ pc' = IF sozinha.excecao \/ lote.excecao THEN "excecao" ELSE "segmentou"
              /\ erro' = IF sozinha.excecao \/ lote.excecao THEN "preprocessamento" ELSE ""
    /\ UNCHANGED <<modelo, imgs_saudaveis, imgs_doentes, imgs_desconhecidos,
                   nomes_desconhecidos, pasta_desconhecidos, idx, resultados, ult,
                   relatorio, codigo>>

NextLote == SegmentaSozinhaENoLote

SpecLote == InitLote /\ [][NextLote]_vars

\* ================================================================= claims
Linhas == {resultados[k] : k \in 1..Len(resultados)}
Definida(m) == m.t = "num"
AmbasDefinidas(r) == Definida(r.ssim_medio_saudaveis) /\ Definida(r.ssim_medio_doentes)

\* The row the try block appended in the most recent iteration, when that
\* iteration got as far as appending it.
TemLinhaRecente ==
    /\ ult.pontos # <<>>
    /\ ult.pontos[Len(ult.pontos)] # "comparacao"
LinhaRecente ==
    IF ult.pontos[Len(ult.pontos)] = "log"
    THEN resultados[Len(resultados) - 1]
    ELSE resultados[Len(resultados)]
TodasNone(vals) == \A i \in 1..Len(vals) : vals[i] = None
NaNOuScore(m) == m = NaN \/ (m.t = "num" /\ m.v >= -Unidade /\ m.v <= Unidade)

\* C1: every row whose two pool means are defined is labelled Saudavel with
\* confidence scoreHealthy - scoreDiseased when scoreHealthy is strictly
\* greater, and Doente with confidence scoreDiseased - scoreHealthy
\* otherwise, the exact tie included.
C1_RegraAmbasDefinidas ==
    \A r \in Linhas :
        AmbasDefinidas(r) =>
            IF r.ssim_medio_saudaveis.v > r.ssim_medio_doentes.v
            THEN /\ r.classificacao = "Saudavel"
                 /\ r.confianca = r.ssim_medio_saudaveis.v - r.ssim_medio_doentes.v
            ELSE /\ r.classificacao = "Doente"
                 /\ r.confianca = r.ssim_medio_doentes.v - r.ssim_medio_saudaveis.v

\* A call that produced a tie row, a strictly-healthy row and a
\* strictly-diseased row.
C1_Witness ==
    /\ pc = "salvar"
    /\ \E r \in Linhas : AmbasDefinidas(r) /\ r.ssim_medio_saudaveis.v = r.ssim_medio_doentes.v
                         /\ r.classificacao = "Doente"
    /\ \E r \in Linhas : AmbasDefinidas(r) /\ r.ssim_medio_saudaveis.v > r.ssim_medio_doentes.v
    /\ \E r \in Linhas : AmbasDefinidas(r) /\ r.ssim_medio_saudaveis.v < r.ssim_medio_doentes.v

\* C2: a row with both means undefined is Indefinido with confidence 0; with
\* only the diseased mean undefined it is Saudavel with confidence
\* scoreHealthy; with only the healthy mean undefined it is Doente with
\* confidence scoreDiseased. A pool mean is undefined exactly when the pool
\* is empty or every comparison against it returned None.
C2_RegraIndefinidos ==
    /\ \A r \in Linhas :
          /\ (r.ssim_medio_saudaveis = NaN /\ r.ssim_medio_doentes = NaN)
                => (r.classificacao = "Indefinido" /\ r.confianca = 0)
          /\ (Definida(r.ssim_medio_saudaveis) /\ r.ssim_medio_doentes = NaN)
                => (r.classificacao = "Saudavel" /\ r.confianca = r.ssim_medio_saudaveis.v)
          /\ (r.ssim_medio_saudaveis = NaN /\ Definida(r.ssim_medio_doentes))
                => (r.classificacao = "Doente" /\ r.confianca = r.ssim_medio_doentes.v)
    /\ TemLinhaRecente =>
          /\ Len(ult.saudaveis) = Len(imgs_saudaveis)
          /\ Len(ult.doentes) = Len(imgs_doentes)
          /\ (LinhaRecente.ssim_medio_saudaveis = NaN) <=> TodasNone(ult.saudaveis)
          /\ (LinhaRecente.ssim_medio_doentes = NaN) <=> TodasNone(ult.doentes)
          /\ NaNOuScore(LinhaRecente.ssim_medio_saudaveis)
          /\ NaNOuScore(LinhaRecente.ssim_medio_doentes)

\* A call with both pools non-empty that produced the three kinds of row,
\* the last one because every comparison returned None.
C2_Witness ==
    /\ imgs_saudaveis # <<>> /\ imgs_doentes # <<>>
    /\ \E r \in Linhas : Definida(r.ssim_medio_saudaveis) /\ r.ssim_medio_doentes = NaN
                         /\ r.classificacao = "Saudavel"
    /\ \E r \in Linhas : r.ssim_medio_saudaveis = NaN /\ Definida(r.ssim_medio_doentes)
                         /\ r.classificacao = "Doente"
    /\ TemLinhaRecente
    /\ LinhaRecente.ssim_medio_saudaveis = NaN /\ LinhaRecente.ssim_medio_doentes = NaN
    /\ LinhaRecente.classificacao = "Indefinido"

\* C3 as stated: when both reference pools are empty, the finished call
\* holds one row for each unknown image, labelled Indefinido with
\* confidence 0.
C3_LinhaIndefinidaPorImagem ==
    (pc = "salvar" /\ imgs_saudaveis = <<>> /\ imgs_doentes = <<>>) =>
        /\ Len(resultados) = Len(imgs_desconhecidos)
        /\ \A r \in Linhas : r.classificacao = "Indefinido" /\ r.confianca = 0

\* C3 amended: when both reference pools are empty, classificar_imagens
\* returns an empty list, whatever the number of unknown images: no row is
\* produced at all, so none carries a label or a confidence.
C3_SemReferenciasSemLinhas ==
    (imgs_saudaveis = <<>> /\ imgs_doentes = <<>>) =>
        /\ resultados = <<>>
        /\ pc \in {"classificar", "salvar"}
        /\ idx = 0

\* A call with empty pools and unknown images to classify has returned.
C3_Witness ==
    /\ pc = "salvar"
    /\ imgs_saudaveis = <<>> /\ imgs_doentes = <<>>
    /\ Len(imgs_desconhecidos) >= 2

\* C4 as stated: with an empty healthy pool and a non-empty diseased pool,
\* every row is Doente with confidence equal to the diseased mean and a
\* healthy comparison count of 0, whatever the comparisons returned.
C4_SempreDoente ==
    (imgs_saudaveis = <<>> /\ imgs_doentes # <<>>) =>
        \A r \in Linhas :
            r.classificacao # "Erro" =>
                /\ r.classificacao = "Doente"
                /\ Definida(r.ssim_medio_doentes)
                /\ r.confianca = r.ssim_medio_doentes.v
                /\ r.n_comparacoes_saudavel = 0

\* C4 amended: with an empty healthy pool and a non-empty diseased pool,
\* every row has a healthy comparison count of 0 and an undefined healthy
\* mean; it is Doente with confidence equal to the diseased mean when at
\* least one comparison against the diseased pool is defined, and
\* Indefinido with confidence 0 when every one of them is undefined.
C4_DoenteSeAlgumaDefinida ==
    (imgs_saudaveis = <<>> /\ imgs_doentes # <<>>) =>
        /\ \A r \in Linhas :
              /\ r.n_comparacoes_saudavel = 0
              /\ r.classificacao # "Erro" =>
                    /\ r.ssim_medio_saudaveis = NaN
                    /\ r.classificacao \in {"Doente", "Indefinido"}
                    /\ r.classificacao = "Doente" <=> r.n_comparacoes_doente > 0
                    /\ r.classificacao = "Doente" =>
                          /\ Definida(r.ssim_medio_doentes)
                          /\ r.confianca = r.ssim_medio_doentes.v
                    /\ r.classificacao = "Indefinido" =>
                          /\ r.ssim_medio_doentes = NaN
                          /\ r.confianca = 0
        /\ TemLinhaRecente =>
              (LinhaRecente.classificacao = "Indefinido" <=> TodasNone(ult.doentes))

\* With an empty healthy pool and two diseased references, one unknown image
\* was labelled Doente and the next one, all of whose comparisons returned
\* None, Indefinido.
C4_Witness ==
    /\ imgs_saudaveis = <<>> /\ Len(imgs_doentes) = 2
    /\ \E r \in Linhas : r.classificacao = "Doente" /\ r.n_comparacoes_doente = 1
    /\ TemLinhaRecente
    /\ TodasNone(ult.doentes)
    /\ LinhaRecente.classificacao = "Indefinido"

\* C5 as stated: no row with at least one defined pool mean has
\* confidence 0.
C5_ZeroSoSemMedias ==
    \A r \in Linhas :
        (Definida(r.ssim_medio_saudaveis) \/ Definida(r.ssim_medio_doentes))
            => r.confianca # 0

\* C5 amended: the confidence of a row is 0 exactly when both pool means are
\* undefined (Indefinido and Erro rows), when both are defined and equal (an
\* exact tie, labelled Doente), or when the only defined mean is itself 0.
C5_ZeroExatamenteQuando ==
    \A r \in Linhas :
        r.confianca = 0 <=>
            \/ ~Definida(r.ssim_medio_saudaveis) /\ ~Definida(r.ssim_medio_doentes)
            \/ AmbasDefinidas(r) /\ r.ssim_medio_saudaveis.v = r.ssim_medio_doentes.v
            \/ /\ Definida(r.ssim_medio_saudaveis) /\ ~Definida(r.ssim_medio_doentes)
               /\ r.ssim_medio_saudaveis.v = 0
            \/ /\ ~Definida(r.ssim_medio_saudaveis) /\ Definida(r.ssim_medio_doentes)
               /\ r.ssim_medio_doentes.v = 0

\* One call produced a tie row with confidence 0 and a row whose only
\* defined mean is 0, with confidence 0 too.
C5_Witness ==
    /\ \E r \in Linhas : AmbasDefinidas(r) /\ r.confianca = 0 /\ r.classificacao = "Doente"
    /\ \E r \in Linhas : /\ Definida(r.ssim_medio_saudaveis)
                         /\ r.ssim_medio_doentes = NaN
                         /\ r.ssim_medio_saudaveis.v = 0
                         /\ r.confianca = 0

\* C6 as stated: the confidence of every row is non-negative.
C6_ConfiancaNaoNegativa ==
    \A r \in Linhas : r.confianca >= 0

\* C7 as stated: when classificar_imagens has returned in a run of main(),
\* the result list (and the report written from it) holds exactly one row
\* for every file of the unknown directory that was decoded, in directory
\* order, and nothing else, also when an iteration failed partway.
C7_UmaLinhaPorImagem ==
    LET dec == Decodificados(pasta_desconhecidos.pasta)
    IN  /\ pc = "salvar" =>
              /\ Len(resultados) = Len(dec)
              /\ \A i \in 1..Len(dec) : resultados[i].imagem = dec[i].nome
        /\ relatorio.escrito =>
              /\ Len(relatorio.linhas) = Len(dec)
              /\ \A i \in 1..Len(dec) : relatorio.linhas[i].imagem = dec[i].nome

LinhasDe(nome) == {r \in Linhas : r.imagem = nome}

\* C8: an exception raised while one unknown image is processed leaves an
\* Erro row for that image, with confidence 0 and both counts 0; the loop
\* goes on to the last image, and an image whose own iteration did not fail
\* gets its ordinary row, computed from its own comparisons alone, whatever
\* failed before it.
C8_FalhaIsolada ==
    /\ Len(ult.pontos) = idx
    /\ \A i \in 1..idx :
          LET nome == Nome(nomes_desconhecidos, i)
          IN  /\ ult.pontos[i] # "nenhum" =>
                    \E r \in LinhasDe(nome) :
                        /\ r.classificacao = "Erro"
                        /\ r.confianca = 0
                        /\ r.n_comparacoes_saudavel = 0
                        /\ r.n_comparacoes_doente = 0
              /\ ult.pontos[i] = "nenhum" =>
                    /\ LinhasDe(nome) # {}
                    /\ \A r \in LinhasDe(nome) :
                          r.classificacao \in {"Saudavel", "Doente", "Indefinido"}
    /\ (pc = "salvar" /\ ~SemReferencias(imgs_saudaveis, imgs_doentes)) =>
          idx = Len(imgs_desconhecidos)
    /\ pc = "loop" => idx < Len(imgs_desconhecidos)
    /\ TemLinhaRecente =>
          LinhaRecente = Linha(Nome(nomes_desconhecidos, idx),
                               Definidos(ult.saudaveis), Definidos(ult.doentes))

\* The first unknown image failed, the images after it were classified, and
\* the call returned.
C8_Witness ==
    /\ pc = "salvar"
    /\ idx >= 3
    /\ ult.pontos[1] = "comparacao"
    /\ ult.pontos[2] = "log"
    /\ ult.pontos[idx] = "nenhum"
    /\ resultados[Len(resultados)].classificacao \in {"Saudavel", "Doente"}

TemReferencia == imgs_saudaveis # <<>> \/ imgs_doentes # <<>>

\* C9: classification runs, and the report is written, only in a run that
\* loaded at least one reference image and at least one unknown image. A run
\* with two empty pools ends before the unknown directory is read, and a
\* run with no unknown image ends after reading it; in both no comparison is
\* made, no row exists and no report is written.
C9_SoClassificaComImagens ==
    /\ pc \in {"classificar", "loop", "salvar"} =>
          TemReferencia /\ imgs_desconhecidos # <<>>
    /\ relatorio.escrito =>
          /\ pc = "fim" /\ codigo = 0
          /\ TemReferencia /\ imgs_desconhecidos # <<>>
    /\ (codigo # 1 /\ pasta_desconhecidos.lida) => TemReferencia
    /\ (codigo # 1 /\ pc \in {"desconhecidos", "fim"} /\ ~TemReferencia) =>
          /\ pc = "fim" /\ codigo = 0
          /\ ~pasta_desconhecidos.lida
          /\ resultados = <<>> /\ ult = UltInicial
          /\ ~relatorio.escrito
    /\ (codigo # 1 /\ pc \in {"classificar", "fim"} /\ pasta_desconhecidos.lida
            /\ imgs_desconhecidos = <<>>) =>
          /\ pc = "fim" /\ codigo = 0
          /\ resultados = <<>> /\ ult = UltInicial
          /\ ~relatorio.escrito

\* A run whose two reference directories gave no image has ended without
\* reading the unknown directory and without a report.
C9_Witness ==
    /\ pc = "fim"
    /\ modelo = "ok"
    /\ erro = ""
    /\ ~TemReferencia
    /\ ~pasta_desconhecidos.lida
    /\ ~relatorio.escrito

\* C10 as stated: the process ends with sys.exit(1) only for a missing or
\* unloadable model (and, outside the components, for an interrupt or a
\* failed report write); a failure inside the Loader, the Segmentation Engine
\* or the Similarity Scorer never does.
C10_SoFatalTermina ==
    codigo = 1 =>
        erro \in {"modelo_ausente", "modelo_corrompido", "KeyboardInterrupt", "to_csv"}

\* Number and sum of the scores of vals that are not None.
NumDefinidos(vals) == Cardinality({i \in 1..Len(vals) : vals[i] # None})
SomaDefinidos(vals) == Soma([i \in 1..Len(vals) |-> IF vals[i] = None THEN 0 ELSE vals[i].v])

\* C13: in every row each comparison count is at most the size of its pool
\* and a pool mean is defined exactly when its count is not 0; the counts
\* of the row just appended are the numbers of comparisons that returned a
\* score, and its means are the sums of exactly those scores divided by
\* those counts.
C13_ContagensEMedias ==
    /\ \A r \in Linhas :
          /\ r.n_comparacoes_saudavel \in 0..Len(imgs_saudaveis)
          /\ r.n_comparacoes_doente \in 0..Len(imgs_doentes)
          /\ Definida(r.ssim_medio_saudaveis) <=> r.n_comparacoes_saudavel # 0
          /\ Definida(r.ssim_medio_doentes) <=> r.n_comparacoes_doente # 0
    /\ TemLinhaRecente =>
          /\ LinhaRecente.n_comparacoes_saudavel = NumDefinidos(ult.saudaveis)
          /\ LinhaRecente.n_comparacoes_doente = NumDefinidos(ult.doentes)
          /\ LinhaRecente.ssim_medio_saudaveis.v * NumDefinidos(ult.saudaveis)
                = SomaDefinidos(ult.saudaveis)
          /\ LinhaRecente.ssim_medio_doentes.v * NumDefinidos(ult.doentes)
                = SomaDefinidos(ult.doentes)

\* An image was compared with two healthy references, one comparison
\* returning None and the other 1.0, and with two diseased references that
\* returned -1.0 and 1.0: counts 1 and 2, means 1.0 and 0.
C13_Witness ==
    /\ TemLinhaRecente
    /\ Len(ult.saudaveis) = 2 /\ Len(ult.doentes) = 2
    /\ ult.saudaveis[1] = None /\ ult.saudaveis[2] = Num(Unidade)
    /\ ult.doentes[1] = Num(-Unidade) /\ ult.doentes[2] = Num(Unidade)
    /\ LinhaRecente.n_comparacoes_saudavel = 1
    /\ LinhaRecente.n_comparacoes_doente = 2
    /\ LinhaRecente.ssim_medio_saudaveis = Num(Unidade)
    /\ LinhaRecente.ssim_medio_doentes = Num(0)

\* The files of the directory of a direct call, and the positions of those
\* with a suffix of the allow-list, in any case, that decode.
ArquivosDaPasta == pasta_desconhecidos.pasta.arquivos
SufixosAceitos == {".jpg", ".jpeg", ".png", ".bmp", ".tiff", ".tif", ".JPG"}
Aproveitaveis ==
    {i \in 1..Len(ArquivosDaPasta) :
        ArquivosDaPasta[i].ext \in SufixosAceitos /\ ArquivosDaPasta[i].legivel}
SemFalhaForaDoTry ==
    /\ ambiente.escrita
    /\ \A k \in 1..Len(ambiente.seg) : ambiente.seg[k] # "resize_falha"

\* C11: a call of carregar_imagens that returns gives two lists of equal
\* length, image k belonging to name k, holding exactly the files with a
\* suffix of the allow-list that decode, in directory order; a missing or
\* empty directory gives two empty lists; and an undecodable file never makes
\* the call raise.
C11_ListasPareadas ==
    /\ pc = "retornou" =>
          /\ Len(imgs_desconhecidos) = Len(nomes_desconhecidos)
          /\ Len(nomes_desconhecidos) = Cardinality(Aproveitaveis)
          /\ \A k \in 1..Len(nomes_desconhecidos) :
                /\ imgs_desconhecidos[k].origem = nomes_desconhecidos[k]
                /\ \E i \in Aproveitaveis : nomes_desconhecidos[k] = ArquivosDaPasta[i].nome
          /\ \A k, l \in 1..Len(nomes_desconhecidos) :
                k < l => nomes_desconhecidos[k][2] < nomes_desconhecidos[l][2]
    /\ (pc # "carregar" /\ (~pasta_desconhecidos.pasta.existe \/ Aproveitaveis = {})) =>
          /\ pc = "retornou"
          /\ imgs_desconhecidos = <<>> /\ nomes_desconhecidos = <<>>
    /\ (pc # "carregar" /\ SemFalhaForaDoTry) => pc = "retornou"

\* A directory of one undecodable file and four valid images gave exactly
\* four images.
C11_Witness ==
    /\ pc = "retornou"
    /\ Len(ArquivosDaPasta) = 5
    /\ \A i \in 1..5 : ArquivosDaPasta[i].ext \in SufixosAceitos
    /\ Cardinality({i \in 1..5 : ~ArquivosDaPasta[i].legivel}) = 1
    /\ Len(imgs_desconhecidos) = 4
    /\ Len(nomes_desconhecidos) = 4

\* C12: the segmented list has the length and the order of the decoded
\* images whether model.predict works or raises; the images of a sub-batch
\* whose predict raised, and only they, are all-zero, and such a failure does
\* not make the call raise.
C12_LoteZerado ==
    /\ pc = "retornou" =>
          LET dec == Decodificados(pasta_desconhecidos.pasta)
          IN  /\ Len(imgs_desconhecidos) = Len(dec)
              /\ Len(ambiente.seg) * BATCH_SIZE >= Len(dec)
              /\ \A k \in 1..Len(dec) :
                    /\ imgs_desconhecidos[k].origem = dec[k].nome
                    /\ imgs_desconhecidos[k].zero
                          <=> ambiente.seg[((k - 1) \div BATCH_SIZE) + 1] = "predict_falha"
                    /\ ~imgs_desconhecidos[k].zero => imgs_desconhecidos[k].shape = SEG_SIZE
    /\ pc = "excecao" => ~SemFalhaForaDoTry

\* Seventeen images were decoded, predict raised for the first sub-batch and
\* worked for the second: sixteen zeroed images, then one segmented image.
C12_Witness ==
    /\ pc = "retornou"
    /\ Len(imgs_desconhecidos) = BATCH_SIZE + 1
    /\ ambiente.seg = <<"predict_falha", "ok">>
    /\ \A k \in 1..BATCH_SIZE : imgs_desconhecidos[k].zero
    /\ ~imgs_desconhecidos[BATCH_SIZE + 1].zero

\* Every image held in a reference pool or in the unknown list.
ImagensCarregadas ==
    {imgs_saudaveis[i] : i \in 1..Len(imgs_saudaveis)}
        \cup {imgs_doentes[i] : i \in 1..Len(imgs_doentes)}
        \cup {imgs_desconhecidos[i] : i \in 1..Len(imgs_desconhecidos)}

\* C14: every segmented image of a reference pool or of the unknown list has
\* the canonical resolution SEG_SIZE, on every path of segmentar_pulmao_batch,
\* the fallback of a failed model call included, whatever the resolution of
\* the source image.
C14_ResolucaoCanonica ==
    \A img \in ImagensCarregadas : img.shape = SEG_SIZE

\* C15: when the run is interrupted between unknown images, after k of n
\* were classified (0 < k < n), the rows of the k classified images are in
\* the report.
C15_PersistenciaIncremental ==
    [][(/\ pc = "loop"
        /\ 0 < idx
        /\ idx < Len(imgs_desconhecidos)
        /\ pc' = "fim"
        /\ erro' = "KeyboardInterrupt")
          => (/\ relatorio'.escrito
              /\ Len(relatorio'.linhas) >= idx
              /\ SubSeq(relatorio'.linhas, 1, Len(resultados)) = resultados)]_vars

\* s is an initial segment of t.
Prefixo(s, t) == Len(s) <= Len(t) /\ SubSeq(t, 1, Len(s)) = s

\* C16: no comparison of an unknown image happens before both pools are
\* loaded and segmented, and classificar_imagens leaves both pools and the
\* unknown list as they are, only appending to the list of results.
C16_PoolsSomenteLeitura ==
    [][/\ (pc \in {"import", "saudaveis", "doentes", "desconhecidos"})
             => (resultados = <<>> /\ ult = UltInicial /\ idx = 0)
       /\ (pc \in {"classificar", "loop"} /\ pc' \in {"loop", "salvar"})
             => (/\ imgs_saudaveis' = imgs_saudaveis
                 /\ imgs_doentes' = imgs_doentes
                 /\ imgs_desconhecidos' = imgs_desconhecidos
                 /\ nomes_desconhecidos' = nomes_desconhecidos
                 /\ Prefixo(resultados, resultados'))]_vars

\* classificar_imagens returned after comparing every unknown image with both
\* pools, which still hold their references.
C16_Witness ==
    /\ pc = "salvar"
    /\ imgs_saudaveis # <<>>
    /\ imgs_doentes # <<>>
    /\ idx = Len(imgs_desconhecidos)
    /\ idx >= 1
    /\ Len(resultados) >= idx

\* C17: the segmented image of X is the same whether X is segmented alone
\* or as a member of a batch; it depends on X only, not on the batch.
C17_IndependeDoLote ==
    pc = "segmentou" => segmentadas.sozinha[1] = segmentadas.lote[idx]

====
